---- MODULE Spec2Model ----
(***************************************************************************)
(* A model of the scrappy_mvp trading-idea pipeline: the RSI signal        *)
(* detector, the alert rule, the sentiment aggregation, the asset finder,  *)
(* the data ingestion with its two scheduled jobs, and main from start to  *)
(* the dashboard.                                                          *)
(*                                                                         *)
(* Numbers.  Python floats are modelled as exact rationals [n, d] with     *)
(* d > 0 in lowest terms, plus the value NaN.                              *)
(* Dictionaries are functions; a missing key is a point outside DOMAIN.    *)
(***************************************************************************)
EXTENDS Integers, Sequences, FiniteSets, TLC

VARIABLES
    pc,               \* position of the running operation
    market_data,      \* DataIngestion.market_data / TradingSignalDetector.market_data
    opportunities,    \* result of detect_opportunities
    asset_sentiments, \* result of aggregate_sentiment_by_asset
    news_data,        \* DataIngestion.news_data: sequence of headlines, insertion order
    tickers,          \* the assets argument of aggregate_sentiment_by_asset
    email_config,     \* AlertManager.sender/password/recipients all present?
    send_calls,       \* asset -> number of send_email calls made for it
    delivered,        \* asset -> number of mails handed to SMTP for it
    alert_runs,       \* number of process_alerts calls made
    provider,         \* ticker -> what the price/info provider answers for it
    stock_candidates, \* AssetFinder.stock_candidates
    target_arg,       \* the target_assets constructor argument
    target_assets,    \* AssetFinder.target_assets
    cursor,           \* index of the next candidate in find_interesting_assets
    fetched,          \* ticker -> what fetch_asset_data returned for it
    asset_data,       \* the asset_data list of find_interesting_assets
    selected,         \* the list find_interesting_assets returned
    ASSETS,           \* main's ASSETS
    assets,           \* DataIngestion.assets
    env,              \* which configuration values the environment holds
    world,            \* what the outside answers: losers, price histories, feeds
    sched,            \* has the BackgroundScheduler been started?
    mjob,             \* scheduled fetch_market_data: 0 = not running, k = at asset k
    njob,             \* scheduled fetch_news_data: 0 = not running, k = at asset k
    rounds,           \* number of scheduled runs started, per job
    dash              \* what run_dashboard read

vars == <<pc, market_data, opportunities, asset_sentiments, news_data, tickers,
          email_config, send_calls, delivered, alert_runs,
          stock_candidates, target_arg,
          target_assets, cursor, fetched, asset_data, selected, ASSETS, provider,
          assets, env, world, sched, mjob, njob, rounds, dash>>

detectVars == <<market_data, opportunities>>
alertVars  == <<email_config, send_calls, delivered, alert_runs>>
aggVars    == <<news_data, tickers>>
finderVars == <<stock_candidates, target_arg, target_assets, cursor, fetched,
                asset_data, selected, ASSETS, provider, assets>>

mainVars == <<env, world, sched, mjob, njob, rounds, dash>>

EmptyMap == [x \in {} |-> x]

Min(a, b) == IF a <= b THEN a ELSE b
Max(a, b) == IF a >= b THEN a ELSE b
Abs(a) == IF a < 0 THEN -a ELSE a

(***************************************************************************)
(* Float arithmetic as exact rationals with NaN.                           *)
(***************************************************************************)
NaN == [nan |-> TRUE, n |-> 0, d |-> 1]
R(n) == [nan |-> FALSE, n |-> n, d |-> 1]
RECURSIVE GCD(_, _)
GCD(a, b) == IF b = 0 THEN a ELSE GCD(b, a % b)
\* n / d in lowest terms, d # 0
Frac(n, d) ==
    LET g == GCD(Abs(n), Abs(d))
    IN  IF d < 0 THEN [nan |-> FALSE, n |-> (-n) \div g, d |-> (-d) \div g]
                 ELSE [nan |-> FALSE, n |-> n \div g, d |-> d \div g]
IsNaN(x) == x.nan
RAdd(x, y) == IF x.nan \/ y.nan THEN NaN ELSE Frac(x.n * y.d + y.n * x.d, x.d * y.d)
RSub(x, y) == IF x.nan \/ y.nan THEN NaN ELSE Frac(x.n * y.d - y.n * x.d, x.d * y.d)
RMul(x, y) == IF x.nan \/ y.nan THEN NaN ELSE Frac(x.n * y.n, x.d * y.d)
\* Division is only applied to a non-zero divisor by the code modelled here.
RDiv(x, y) == IF x.nan \/ y.nan \/ y.n = 0 THEN NaN ELSE Frac(x.n * y.d, x.d * y.n)
RLt(x, y) == ~x.nan /\ ~y.nan /\ x.n * y.d < y.n * x.d
RGt(x, y) == RLt(y, x)
REq(x, y) == ~x.nan /\ ~y.nan /\ x.n * y.d = y.n * x.d
RLe(x, y) == RLt(x, y) \/ REq(x, y)
RAbs(x) == IF x.nan THEN NaN ELSE Frac(Abs(x.n), x.d)

(***************************************************************************)
(* The five signal labels.                                                 *)
(***************************************************************************)
OVERBOUGHT == "Momentum (Overbought)"
OVERSOLD == "Momentum (Oversold)"
NO_SIGNAL == "No signal"
NO_DATA == "No signal (insufficient data)"
NO_HISTORY == "No signal (insufficient history)"
Signals == {OVERBOUGHT, OVERSOLD, NO_SIGNAL, NO_DATA, NO_HISTORY}

(***************************************************************************)
(* trading_detector.py                                                     *)
(***************************************************************************)
MinHistory == 14
RsiPeriod == 14
OverboughtLevel == 70
OversoldLevel == 30

\* series.diff(): undefined (NaN) at the first point
Delta(s, i) == IF i = 1 THEN NaN ELSE R(s[i] - s[i - 1])
\* delta.where(delta > 0, 0)
Gain(s, i) == IF RGt(Delta(s, i), R(0)) THEN Delta(s, i) ELSE R(0)
\* -delta.where(delta < 0, 0)
Loss(s, i) == IF RLt(Delta(s, i), R(0)) THEN RSub(R(0), Delta(s, i)) ELSE R(0)

RECURSIVE SumGain(_, _, _)
SumGain(s, lo, hi) == IF lo > hi THEN R(0) ELSE RAdd(SumGain(s, lo, hi - 1), Gain(s, hi))
RECURSIVE SumLoss(_, _, _)
SumLoss(s, lo, hi) == IF lo > hi THEN R(0) ELSE RAdd(SumLoss(s, lo, hi - 1), Loss(s, hi))

\* rolling(window=period, min_periods=1).mean() at point i
WindowLo_Wide(i, period) == Max(1, i - period)
WindowLo(i, period) == Max(1, i - period + 1)
AvgGain(s, i, period) ==
    RDiv(SumGain(s, WindowLo(i, period), i), R(i - WindowLo(i, period) + 1))
AvgLoss(s, i, period) ==
    RDiv(SumLoss(s, WindowLo(i, period), i), R(i - WindowLo(i, period) + 1))

\* avg_loss.replace(0, np.nan)
ReplaceZero(x) == IF REq(x, R(0)) THEN NaN ELSE x

\* calculate_rsi(series, period) at point i
calculate_rsi(s, i, period) ==
    LET rs == RDiv(AvgGain(s, i, period), ReplaceZero(AvgLoss(s, i, period)))
    IN  RSub(R(100), RDiv(R(100), RAdd(R(1), rs)))

\* "daily_history" in data and len(data["daily_history"]) >= 14
HasHistory_Unchecked(data) == data.has_daily
HasHistory(data) == data.has_daily /\ Len(data.daily_history) >= MinHistory

\* the label chosen from the last RSI value
LabelOf_NoNaNCheck(rsi) ==
    IF RGt(rsi, R(OverboughtLevel)) THEN OVERBOUGHT
    ELSE IF RLt(rsi, R(OversoldLevel)) THEN OVERSOLD
    ELSE NO_SIGNAL
LabelOf_Inclusive(rsi) ==
    IF ~IsNaN(rsi)
    THEN IF RGt(rsi, R(OverboughtLevel)) \/ REq(rsi, R(OverboughtLevel)) THEN OVERBOUGHT
         ELSE IF RLt(rsi, R(OversoldLevel)) \/ REq(rsi, R(OversoldLevel)) THEN OVERSOLD
         ELSE NO_SIGNAL
    ELSE NO_DATA
LabelOf(rsi) ==
    IF ~IsNaN(rsi)
    THEN IF RGt(rsi, R(OverboughtLevel)) THEN OVERBOUGHT
         ELSE IF RLt(rsi, R(OversoldLevel)) THEN OVERSOLD
         ELSE NO_SIGNAL
    ELSE NO_DATA

\* the body of the loop of detect_opportunities for one asset's data
Classify(data) ==
    IF HasHistory(data)
    THEN LabelOf(calculate_rsi(data.daily_history, Len(data.daily_history), RsiPeriod))
    ELSE NO_HISTORY

detect_opportunities(md) == [a \in DOMAIN md |-> Classify(md[a])]

(***************************************************************************)
(* Inputs of the detector: daily-close sequences of up to MaxHist points,  *)
(* piecewise linear with one kink, or zigzag.                              *)
(***************************************************************************)
MaxHist == 20
MaxSlope == 2
Slopes == (-MaxSlope)..MaxSlope

KinkHist(n, a, b, k) ==
    [i \in 1..n |-> 100 + a * Min(i - 1, k) + b * Max(i - 1 - k, 0)]
ZigzagHist(n, a, b) ==
    [i \in 1..n |-> 100 + a * (i \div 2) + b * ((i - 1) \div 2)]
Histories ==
    {KinkHist(n, a, b, k) : n \in 0..MaxHist, a \in Slopes, b \in Slopes, k \in {0, 3, 7, 10}}
    \cup {ZigzagHist(n, a, b) : n \in 0..MaxHist, a \in Slopes, b \in Slopes}

WithDaily(h) == [has_daily |-> TRUE, daily_history |-> h]
NoDaily == [has_daily |-> FALSE, daily_history |-> <<>>]

\* market_data of the detector: "AAA" with any history of the family, and
\* possibly "BBB" with no daily history, a short one or a long one.
DetectInputs ==
    {[a \in {"AAA"} |-> WithDaily(h)] : h \in Histories}
    \cup {[a \in {"AAA", "BBB"} |-> IF a = "AAA" THEN WithDaily(h) ELSE d] :
            h \in Histories,
            d \in {NoDaily, WithDaily(KinkHist(MinHistory - 1, 1, 1, 0)),
                   WithDaily(KinkHist(MinHistory, -1, -1, 0))}}

DetectIdle == market_data = EmptyMap /\ opportunities = EmptyMap
AlertIdle ==
    /\ asset_sentiments = EmptyMap
    /\ email_config = FALSE
    /\ send_calls = EmptyMap
    /\ delivered = EmptyMap
    /\ alert_runs = 0
AggIdle == news_data = <<>> /\ tickers = <<>>
NotRead == [read |-> FALSE, market |-> EmptyMap, news |-> <<>>]
NoEnv == [fmp_key |-> FALSE, sender |-> FALSE, password |-> FALSE, recipients |-> "absent"]
NoWorld == [candidates |-> <<>>, market |-> [kind |-> "none", at |-> 0],
            news |-> [kind |-> "none", at |-> 0]]
MainIdle ==
    /\ env = NoEnv
    /\ world = NoWorld
    /\ sched = FALSE
    /\ mjob = 0
    /\ njob = 0
    /\ rounds = [market |-> 0, news |-> 0]
    /\ dash = NotRead
FinderIdle ==
    /\ stock_candidates = <<>>
    /\ target_arg = 0
    /\ target_assets = 0
    /\ cursor = 0
    /\ fetched = EmptyMap
    /\ asset_data = <<>>
    /\ selected = <<>>
    /\ ASSETS = <<>>
    /\ provider = EmptyMap
    /\ assets = <<>>

InitDetect ==
    /\ pc = "detect"
    /\ market_data \in DetectInputs
    /\ opportunities = EmptyMap
    /\ AlertIdle /\ AggIdle /\ FinderIdle /\ MainIdle

DetectOpportunities ==
    /\ pc = "detect"
    /\ opportunities' = detect_opportunities(market_data)
    /\ pc' = "detected"
    /\ UNCHANGED <<market_data, asset_sentiments, alertVars, aggVars, finderVars, mainVars>>

NextDetect == DetectOpportunities

SpecDetect == InitDetect /\ [][NextDetect]_vars

(***************************************************************************)
(* Strings as character sequences, for Python's  sub in text.              *)
(***************************************************************************)
\* the characters of the strings the model uses (labels, tickers, news texts)
Chars(label) ==
    CASE label = OVERBOUGHT -> <<"M", "o", "m", "e", "n", "t", "u", "m", " ", "(", "O", "v", "e", "r", "b", "o", "u", "g", "h", "t", ")">>
      [] label = OVERSOLD -> <<"M", "o", "m", "e", "n", "t", "u", "m", " ", "(", "O", "v", "e", "r", "s", "o", "l", "d", ")">>
      [] label = NO_SIGNAL -> <<"N", "o", " ", "s", "i", "g", "n", "a", "l">>
      [] label = NO_DATA -> <<"N", "o", " ", "s", "i", "g", "n", "a", "l", " ", "(", "i", "n", "s", "u", "f", "f", "i", "c", "i", "e", "n", "t", " ", "d", "a", "t", "a", ")">>
      [] label = NO_HISTORY -> <<"N", "o", " ", "s", "i", "g", "n", "a", "l", " ", "(", "i", "n", "s", "u", "f", "f", "i", "c", "i", "e", "n", "t", " ", "h", "i", "s", "t", "o", "r", "y", ")">>
      [] label = "AB" -> <<"A", "B">>
      [] label = "B" -> <<"B">>
      [] label = "X" -> <<"X">>
      [] label = "ab up" -> <<"a", "b", " ", "u", "p">>
      [] label = "Ab" -> <<"A", "b">>
      [] label = "b x" -> <<"b", " ", "x">>
      [] label = "calm" -> <<"c", "a", "l", "m">>
      [] label = "" -> <<>>
      [] label = "about" -> <<"a", "b", "o", "u", "t">>
      [] label = "L01" -> <<"L", "0", "1">>
      [] label = "L02" -> <<"L", "0", "2">>
      [] label = "L03" -> <<"L", "0", "3">>
      [] label = "L04" -> <<"L", "0", "4">>
      [] label = "L05" -> <<"L", "0", "5">>
      [] label = "L06" -> <<"L", "0", "6">>
      [] label = "L07" -> <<"L", "0", "7">>
      [] label = "L08" -> <<"L", "0", "8">>
      [] label = "L09" -> <<"L", "0", "9">>
      [] label = "L10" -> <<"L", "1", "0">>
      [] label = "L11" -> <<"L", "1", "1">>
      [] label = "L12" -> <<"L", "1", "2">>
      [] label = "DZSI" -> <<"D", "Z", "S", "I">>
      [] label = "BBWI" -> <<"B", "B", "W", "I">>
      [] label = "ETSY" -> <<"E", "T", "S", "Y">>
      [] label = "SENS" -> <<"S", "E", "N", "S">>
      [] label = "NGVC" -> <<"N", "G", "V", "C">>
      [] label = "INOD" -> <<"I", "N", "O", "D">>
      [] label = "NGS" -> <<"N", "G", "S">>
      [] label = "OB" -> <<"O", "B">>
      [] label = "TBBK" -> <<"T", "B", "B", "K">>
      [] label = "HESM" -> <<"H", "E", "S", "M">>
      [] label = "news 1" -> <<"n", "e", "w", "s", " ", "1">>
      [] label = "news 2" -> <<"n", "e", "w", "s", " ", "2">>
      [] label = "news 3" -> <<"n", "e", "w", "s", " ", "3">>
      [] label = "news 4" -> <<"n", "e", "w", "s", " ", "4">>
      [] label = "news 5" -> <<"n", "e", "w", "s", " ", "5">>
      [] label = "news 6" -> <<"n", "e", "w", "s", " ", "6">>
      [] label = "more" -> <<"m", "o", "r", "e">>

\* sub in text
Contains(sub, text) ==
    \E i \in 0..(Len(text) - Len(sub)) :
        \A j \in 1..Len(sub) : text[i + j] = sub[j]

(***************************************************************************)
(* alert_manager.py                                                        *)
(***************************************************************************)
AlertThreshold == Frac(1, 2)

\* asset_sentiments.get(asset, {"avg_compound": 0.0, "count": 0})
SentimentInfo(sents, asset) ==
    IF asset \in DOMAIN sents THEN sents[asset] ELSE [avg_compound |-> R(0), count |-> 0]

\* should_alert of process_alerts
ShouldAlert_Inclusive(signal, avg_compound) ==
    \/ /\ Contains(<<"O", "v", "e", "r", "s", "o", "l", "d">>, Chars(signal))
       /\ RLe(AlertThreshold, avg_compound)
    \/ /\ Contains(<<"O", "v", "e", "r", "b", "o", "u", "g", "h", "t">>, Chars(signal))
       /\ RLe(avg_compound, RSub(R(0), AlertThreshold))
ShouldAlert(signal, avg_compound) ==
    \/ /\ Contains(<<"O", "v", "e", "r", "s", "o", "l", "d">>, Chars(signal))
       /\ RGt(avg_compound, AlertThreshold)
    \/ /\ Contains(<<"O", "v", "e", "r", "b", "o", "u", "g", "h", "t">>, Chars(signal))
       /\ RLt(avg_compound, RSub(R(0), AlertThreshold))

\* the assets process_alerts composes a mail for
Alerting_Dedup(opps, sents) ==
    {a \in DOMAIN opps : /\ ShouldAlert(opps[a], SentimentInfo(sents, a).avg_compound)
                         /\ send_calls[a] = 0}
Alerting(opps, sents) ==
    {a \in DOMAIN opps : ShouldAlert(opps[a], SentimentInfo(sents, a).avg_compound)}

\* process_alerts: one send_email call per alerting asset; send_email hands
\* the mail to SMTP only with sender, password and recipients present, and
\* an SMTP failure (SMTPException) is logged and swallowed.  Every
\* send_email call returns here; MainProcessAlerts has the call that ends
\* with another error.
MaxAlertRuns == 2
ProcessAlerts ==
    /\ pc = "alerts"
    /\ alert_runs < MaxAlertRuns
    /\ alert_runs' = alert_runs + 1
    /\ send_calls' = [a \in DOMAIN send_calls |->
                        IF a \in Alerting(opportunities, asset_sentiments)
                        THEN send_calls[a] + 1 ELSE send_calls[a]]
    /\ \E smtp_ok \in SUBSET Alerting(opportunities, asset_sentiments) :
         delivered' = [a \in DOMAIN delivered |->
                          IF email_config /\ a \in smtp_ok
                          THEN delivered[a] + 1 ELSE delivered[a]]
    /\ UNCHANGED <<pc, market_data, opportunities, asset_sentiments, email_config,
                   aggVars, finderVars, mainVars>>

AlertAssets == {"AAA", "BBB"}
AlertAvgs ==
    {Frac(-6, 10), Frac(-1, 2), Frac(-101, 200), R(0), Frac(4, 10), Frac(1, 2),
     Frac(101, 200), Frac(6, 10)}
AlertSentiments ==
    {[avg_compound |-> x, count |-> IF x.n = 0 THEN 0 ELSE 2] : x \in AlertAvgs}
Maps(keys, values) == UNION {[d -> values] : d \in SUBSET keys}

InitAlerts ==
    /\ pc = "alerts"
    /\ market_data = EmptyMap
    /\ opportunities \in Maps(AlertAssets, Signals)
    /\ asset_sentiments \in Maps(AlertAssets, AlertSentiments)
    /\ email_config \in BOOLEAN
    /\ send_calls = [a \in AlertAssets |-> 0]
    /\ delivered = [a \in AlertAssets |-> 0]
    /\ alert_runs = 0
    /\ AggIdle /\ FinderIdle /\ MainIdle

NextAlerts == ProcessAlerts

SpecAlerts == InitAlerts /\ [][NextAlerts]_vars

(***************************************************************************)
(* Claims about the alert rule, checked under SpecAlerts.                  *)
(***************************************************************************)
AvgOf(a) ==
    IF a \in DOMAIN asset_sentiments THEN asset_sentiments[a].avg_compound ELSE R(0)

LowerChar(c) ==
    CASE c = "A" -> "a"
      [] c = "B" -> "b"
      [] c = "C" -> "c"
      [] c = "D" -> "d"
      [] c = "E" -> "e"
      [] c = "F" -> "f"
      [] c = "G" -> "g"
      [] c = "H" -> "h"
      [] c = "I" -> "i"
      [] c = "J" -> "j"
      [] c = "K" -> "k"
      [] c = "L" -> "l"
      [] c = "M" -> "m"
      [] c = "N" -> "n"
      [] c = "O" -> "o"
      [] c = "P" -> "p"
      [] c = "Q" -> "q"
      [] c = "R" -> "r"
      [] c = "S" -> "s"
      [] c = "T" -> "t"
      [] c = "U" -> "u"
      [] c = "V" -> "v"
      [] c = "W" -> "w"
      [] c = "X" -> "x"
      [] c = "Y" -> "y"
      [] c = "Z" -> "z"
      [] OTHER -> c
Lower(text) == [i \in DOMAIN text |-> LowerChar(text[i])]

\* analyze_sentiment: the compound score the polarity scorer gives a headline
\* is carried by the headline; the result is keyed by title.
analyze_sentiment(news) == [i \in DOMAIN news |-> news[i].compound]

\* asset.lower() in title.lower() or asset.lower() in description.lower()
Matches_TitleOnly(asset, item) ==
    Contains(Lower(Chars(asset)), Lower(Chars(item.title)))
Matches(asset, item) ==
    \/ Contains(Lower(Chars(asset)), Lower(Chars(item.title)))
    \/ Contains(Lower(Chars(asset)), Lower(Chars(item.description)))

\* asset_sentiments[asset] after the loop over the titles: the compound
\* scores of the matching headlines, in the order of news_data
RECURSIVE Compounds(_, _, _)
Compounds(news, asset, k) ==
    IF k = 0 THEN <<>>
    ELSE IF Matches(asset, news[k])
         THEN Append(Compounds(news, asset, k - 1), analyze_sentiment(news)[k])
         ELSE Compounds(news, asset, k - 1)

\* sum(compounds)
RECURSIVE SumSeq(_)
SumSeq(q) ==
    IF q = <<>> THEN R(0) ELSE RAdd(SumSeq(SubSeq(q, 1, Len(q) - 1)), q[Len(q)])

Range(q) == {q[i] : i \in DOMAIN q}

aggregate_sentiment_by_asset(news, asset_list) ==
    [a \in Range(asset_list) |->
        LET compounds == Compounds(news, a, Len(news))
        IN  IF compounds # <<>>
            THEN [avg_compound |-> RDiv(SumSeq(compounds), R(Len(compounds))),
                  count |-> Len(compounds)]
            ELSE [avg_compound |-> R(0), count |-> 0]]

(***************************************************************************)
(* Inputs of the aggregation: up to MaxNews headlines with distinct titles *)
(* (news_data is keyed by title) and a list of distinct tickers.           *)
(***************************************************************************)
MaxNews == 2
MaxTickers == 2
AggTickers == {"AB", "B", "X"}
Titles == {"ab up", "Ab", "b x", "calm"}
Descriptions == {"", "about"}
CompoundScores == {Frac(-8, 10), Frac(2, 10), Frac(6, 10)}
Headlines ==
    [title : Titles, description : Descriptions, compound : CompoundScores]

RECURSIVE NewsOfLen(_)
NewsOfLen(n) ==
    IF n = 0 THEN {<<>>}
    ELSE {Append(q, h) : q \in NewsOfLen(n - 1), h \in Headlines}
DistinctTitles(q) == \A i, j \in DOMAIN q : i # j => q[i].title # q[j].title
NewsInputs == {q \in UNION {NewsOfLen(n) : n \in 0..MaxNews} : DistinctTitles(q)}

RECURSIVE ListsOfLen(_, _)
ListsOfLen(S, n) ==
    IF n = 0 THEN {<<>>}
    ELSE {Append(q, x) : q \in ListsOfLen(S, n - 1), x \in S}
Distinct(q) == \A i, j \in DOMAIN q : i # j => q[i] # q[j]
TickerLists(S, max) ==
    {q \in UNION {ListsOfLen(S, n) : n \in 0..Min(max, Cardinality(S))} : Distinct(q)}

InitAgg ==
    /\ pc = "aggregate"
    /\ news_data \in NewsInputs
    /\ tickers \in TickerLists(AggTickers, MaxTickers)
    /\ DetectIdle /\ AlertIdle /\ FinderIdle /\ MainIdle

AggregateSentiment ==
    /\ pc = "aggregate"
    /\ asset_sentiments' = aggregate_sentiment_by_asset(news_data, tickers)
    /\ pc' = "aggregated"
    /\ UNCHANGED <<detectVars, alertVars, aggVars, finderVars, mainVars>>

NextAgg == AggregateSentiment

SpecAgg == InitAgg /\ [][NextAgg]_vars

(***************************************************************************)
(* Claims about the aggregation, checked under SpecAgg.                    *)
(***************************************************************************)
SameLetter(c, e) ==
    \/ c = e
    \/ <<c, e>> \in {<<"a", "A">>, <<"A", "a">>, <<"b", "B">>, <<"B", "b">>,
                     <<"x", "X">>, <<"X", "x">>}
\* sub occurs in text, letter case ignored
OccursIn(sub, text) ==
    \E i \in 0..(Len(text) - Len(sub)) :
        \A j \in 1..Len(sub) : SameLetter(text[i + j], sub[j])
\* the headlines (by position) that mention the ticker
Mentioning(a) ==
    {i \in DOMAIN news_data :
        \/ OccursIn(Chars(a), Chars(news_data[i].title))
        \/ OccursIn(Chars(a), Chars(news_data[i].description))}
RECURSIVE SumOver(_)
SumOver(I) ==
    IF I = {} THEN R(0)
    ELSE LET i == CHOOSE x \in I : TRUE
         IN  RAdd(news_data[i].compound, SumOver(I \ {i}))

\* C6: for every ticker of the list, count is the number of headlines whose
\* title or description mentions it (case ignored, each headline once) and
\* avg_compound is the mean of their compound scores; a ticker nobody
\* mentions gets avg_compound 0.0 and count 0.
C6_Aggregate ==
    pc = "aggregated" =>
        /\ DOMAIN asset_sentiments = Range(tickers)
        /\ \A a \in Range(tickers) :
              LET got == asset_sentiments[a]
                  M == Mentioning(a)
              IN  /\ got.count = Cardinality(M)
                  /\ ~IsNaN(got.avg_compound)
                  /\ IF M = {}
                     THEN got.avg_compound = R(0)
                     ELSE REq(RMul(got.avg_compound, R(Cardinality(M))), SumOver(M))

\* one headline counts for both tickers, "AB" is matched once through a
\* lower-case title and once through the description only
C6_Witness ==
    /\ pc = "aggregated"
    /\ tickers = <<"B", "AB">>
    /\ Len(news_data) = 2
    /\ news_data[1].title = "ab up" /\ news_data[1].description = ""
    /\ news_data[2].title = "calm" /\ news_data[2].description = "about"
    /\ news_data[1].compound = Frac(6, 10) /\ news_data[2].compound = Frac(-8, 10)
    /\ asset_sentiments["AB"].count = 2
    /\ REq(asset_sentiments["AB"].avg_compound, Frac(-1, 10))
    /\ asset_sentiments["B"].count = 2

(***************************************************************************)
(* asset_finder.py                                                         *)
(***************************************************************************)
\* a forward P/E: a number or float("inf")
PE(x) == [inf |-> FALSE, v |-> x]
PEInf == [inf |-> TRUE, v |-> R(0)]

\* max(5, min(target_assets, 10))
ClampTarget(t) == Max(5, Min(t, 10))

\* the fallback list of fetch_biggest_losers
LosersFallback ==
    <<"DZSI", "BBWI", "ETSY", "SENS", "NGVC", "INOD", "NGS", "OB", "TBBK", "HESM">>

\* fetch_asset_data: None (here: usable = FALSE) on an exception, an empty
\* history or a market cap of 0
NoData == [usable |-> FALSE, ticker |-> "", market_cap |-> 0, volatility |-> R(0),
           pe_ratio |-> PEInf]
fetch_asset_data_ZeroCap(ticker, reply) ==
    IF reply.raises THEN NoData
    ELSE IF reply.history_empty THEN NoData
    ELSE [usable |-> TRUE, ticker |-> ticker, market_cap |-> reply.market_cap,
          volatility |-> reply.volatility, pe_ratio |-> reply.pe_ratio]
fetch_asset_data(ticker, reply) ==
    IF reply.raises THEN NoData
    ELSE IF reply.history_empty THEN NoData
    ELSE IF reply.market_cap = 0 THEN NoData
    ELSE [usable |-> TRUE, ticker |-> ticker, market_cap |-> reply.market_cap,
          volatility |-> reply.volatility, pe_ratio |-> reply.pe_ratio]

\* sentiment_score = abs(sentiment_info["avg_compound"])
SentimentScore_NoAbs(info) == info.avg_compound
SentimentScore(info) == RAbs(info.avg_compound)
\* sentiment_weight = sentiment_score if count > 0 else 0.1
SentimentWeight(info) == IF info.count > 0 THEN SentimentScore(info) ELSE Frac(1, 10)
\* pe_score = 1 / pe if pe != inf and pe > 0 else 0.0
PeScore(pe) == IF ~pe.inf /\ RGt(pe.v, R(0)) THEN RDiv(R(1), pe.v) ELSE R(0)
\* score = sentiment_weight * 0.4 + volatility * 0.3 + pe_score * 0.3
CompositeScore(info, data) ==
    RAdd(RAdd(RMul(SentimentWeight(info), Frac(4, 10)),
              RMul(data.volatility, Frac(3, 10))),
         RMul(PeScore(data.pe_ratio), Frac(3, 10)))

\* the entry appended to asset_data for a usable ticker
Scored(data, sents) ==
    LET info == SentimentInfo(sents, data.ticker)
    IN  [ticker |-> data.ticker, market_cap |-> data.market_cap,
         volatility |-> data.volatility, pe_ratio |-> data.pe_ratio,
         score |-> CompositeScore(info, data), sentiment |-> SentimentScore(info),
         news_count |-> info.count]

\* asset_data.sort(key=score, reverse=True): a stable sort, so an entry goes
\* behind every entry whose score is not smaller
RECURSIVE InsertDesc_TiesFirst(_, _)
InsertDesc_TiesFirst(sorted, e) ==
    IF sorted = <<>> THEN <<e>>
    ELSE IF RGt(sorted[1].score, e.score)
         THEN <<sorted[1]>> \o InsertDesc_TiesFirst(Tail(sorted), e)
         ELSE <<e>> \o sorted
RECURSIVE InsertDesc(_, _)
InsertDesc(sorted, e) ==
    IF sorted = <<>> THEN <<e>>
    ELSE IF RLe(e.score, sorted[1].score)
         THEN <<sorted[1]>> \o InsertDesc(Tail(sorted), e)
         ELSE <<e>> \o sorted
RECURSIVE SortDesc(_)
SortDesc(list) ==
    IF list = <<>> THEN <<>>
    ELSE InsertDesc(SortDesc(SubSeq(list, 1, Len(list) - 1)), list[Len(list)])

\* asset_data[: n]
Take(list, n) == SubSeq(list, 1, Min(n, Len(list)))

\* one turn of the loop of find_interesting_assets
FetchAndScore ==
    /\ pc = "find"
    /\ cursor <= Len(stock_candidates)
    /\ LET ticker == stock_candidates[cursor]
           data == fetch_asset_data(ticker, provider[ticker])
       IN  /\ fetched' = [t \in DOMAIN fetched \cup {ticker} |->
                            IF t = ticker THEN data ELSE fetched[t]]
           /\ asset_data' = IF data.usable
                             THEN Append(asset_data, Scored(data, asset_sentiments))
                             ELSE asset_data
    /\ cursor' = cursor + 1
    /\ UNCHANGED <<pc, detectVars, asset_sentiments, alertVars, aggVars,
                   stock_candidates, target_arg, target_assets, selected, ASSETS,
                   provider, assets, mainVars>>

\* the end of find_interesting_assets: sort, cut, return the tickers
SortAndReturn ==
    /\ pc = "find"
    /\ cursor > Len(stock_candidates)
    /\ asset_data' = SortDesc(asset_data)
    /\ selected' = [i \in 1..Min(target_assets, Len(asset_data)) |->
                        Take(SortDesc(asset_data), target_assets)[i].ticker]
    /\ pc' = "returned"
    /\ UNCHANGED <<detectVars, asset_sentiments, alertVars, aggVars,
                   stock_candidates, target_arg, target_assets, cursor, fetched,
                   ASSETS, provider, assets, mainVars>>

(***************************************************************************)
(* app.py: main, from the call of find_interesting_assets to the second    *)
(* DataIngestion                                                           *)
(***************************************************************************)
MainFallback ==
    <<"DZSI", "BBWI", "ETSY", "SENS", "NGVC", "INOD", "NGS", "OB", "TBBK", "HESM">>

\* ASSETS = find_interesting_assets(...); if not ASSETS: ASSETS = [...][:5]
ChooseAssets_WholeList(found) == IF found = <<>> THEN MainFallback ELSE found
ChooseAssets(found) == IF found = <<>> THEN Take(MainFallback, 5) ELSE found

MainChoose ==
    /\ pc = "returned"
    /\ ASSETS' = ChooseAssets(selected)
    /\ pc' = "chosen"
    /\ UNCHANGED <<detectVars, asset_sentiments, alertVars, aggVars,
                   stock_candidates, target_arg, target_assets, cursor, fetched,
                   asset_data, selected, provider, assets, mainVars>>

\* ingestion = DataIngestion(assets=ASSETS)
MainReinit_KeepMaps ==
    /\ pc = "chosen"
    /\ assets' = ASSETS
    /\ pc' = "ingestion2"
    /\ UNCHANGED <<detectVars, asset_sentiments, alertVars, aggVars,
                   stock_candidates, target_arg, target_assets, cursor, fetched,
                   asset_data, selected, ASSETS, provider, mainVars>>
MainReinit ==
    /\ pc = "chosen"
    /\ assets' = ASSETS
    /\ market_data' = EmptyMap
    /\ news_data' = <<>>
    /\ pc' = "ingestion2"
    /\ UNCHANGED <<opportunities, asset_sentiments, alertVars, tickers,
                   stock_candidates, target_arg, target_assets, cursor, fetched,
                   asset_data, selected, ASSETS, provider, mainVars>>

(***************************************************************************)
(* Inputs of the finder.  The candidates are the losers the API returned   *)
(* (1..MaxCandidates symbols) or the fallback list.  The provider's reply  *)
(* and the sentiment of the k-th candidate follow cycles, so that failures,*)
(* equal scores and scores in every order occur among up to 12 candidates. *)
(***************************************************************************)
MaxCandidates == 11
ApiLosers ==
    <<"L01", "L02", "L03", "L04", "L05", "L06", "L07", "L08", "L09", "L10", "L11", "L12">>
CandidateLists ==
    {Take(ApiLosers, n) : n \in 1..Min(MaxCandidates, Len(ApiLosers))} \cup {LosersFallback}
TargetArgs == {0, 5, 7, 12}

Cycle(c, k) == c[((k - 1) % Len(c)) + 1]
FailKinds == {"empty", "zero_cap", "raises"}
FailPatterns ==
    {[kind |-> "none", every |-> 1]} \cup [kind : FailKinds, every : {1, 2, 3}]
VolCycles == {<<R(0)>>, <<R(0), Frac(2, 10)>>, <<Frac(3, 10), Frac(1, 10), Frac(2, 10)>>}
PeCycles == {<<PEInf>>, <<PE(R(5)), PEInf, PE(R(-4)), PE(R(0))>>, <<PE(R(10)), PE(R(5))>>}
Missing == [present |-> FALSE, avg_compound |-> R(0), count |-> 0]
Sent(x, c) == [present |-> TRUE, avg_compound |-> x, count |-> c]
SentCycles ==
    {<<Missing>>,
     <<Sent(R(0), 0), Sent(Frac(1, 2), 2), Sent(Frac(-8, 10), 1), Sent(Frac(1, 10), 1),
       Sent(Frac(5, 100), 3)>>,
     <<Sent(Frac(-1, 2), 1), Missing>>}

Reply(fp, vc, pc_, k) ==
    [raises |-> fp.kind = "raises" /\ k % fp.every = 0,
     history_empty |-> fp.kind = "empty" /\ k % fp.every = 0,
     market_cap |-> IF fp.kind = "zero_cap" /\ k % fp.every = 0 THEN 0 ELSE 1000,
     volatility |-> Cycle(vc, k),
     pe_ratio |-> Cycle(pc_, k)]
Position(list, t) == CHOOSE k \in DOMAIN list : list[k] = t
Providers(cands) ==
    {[t \in Range(cands) |-> Reply(fp, vc, pc_, Position(cands, t))] :
        fp \in FailPatterns, vc \in VolCycles, pc_ \in PeCycles}
SentimentMaps(cands) ==
    {[t \in {u \in Range(cands) : Cycle(sc, Position(cands, u)).present} |->
        [avg_compound |-> Cycle(sc, Position(cands, t)).avg_compound,
         count |-> Cycle(sc, Position(cands, t)).count]] : sc \in SentCycles}

InitFinder ==
    /\ pc = "find"
    /\ stock_candidates \in CandidateLists
    /\ target_arg \in TargetArgs
    /\ target_assets = ClampTarget(target_arg)
    /\ provider \in Providers(stock_candidates)
    /\ asset_sentiments \in SentimentMaps(stock_candidates)
    /\ cursor = 1
    /\ fetched = EmptyMap
    /\ asset_data = <<>>
    /\ selected = <<>>
    /\ ASSETS = <<>>
    /\ assets = stock_candidates
    /\ DetectIdle /\ AggIdle /\ MainIdle
    /\ email_config = FALSE
    /\ send_calls = EmptyMap
    /\ delivered = EmptyMap
    /\ alert_runs = 0

NextFinder == FetchAndScore \/ SortAndReturn \/ MainChoose \/ MainReinit

SpecFinder == InitFinder /\ [][NextFinder]_vars

(***************************************************************************)
(* data_ingestion.py.  A fetch walks DataIngestion.assets inside one       *)
(* try block: an exception for one asset ends the whole call.  The time    *)
(* of a call (datetime.now()) is a number that grows from call to call.    *)
(***************************************************************************)
\* what yfinance answers for the k-th asset of the list: an exception, empty
\* frames, or frames with a daily history of closes
MarketReply(k) ==
    [raises |-> world.market.kind = "raises" /\ k = world.market.at,
     empty |-> world.market.kind = "empty" /\ k = world.market.at,
     daily |-> IF k % 2 = 1 THEN KinkHist(14, -1, -1, 0) ELSE KinkHist(10, 1, 1, 0)]

\* the body of the loop of fetch_market_data for one asset that did not raise
StoreMarket(md, asset, reply, now) ==
    IF reply.empty THEN md
    ELSE [a \in DOMAIN md \cup {asset} |->
            IF a = asset
            THEN [has_daily |-> TRUE, daily_history |-> reply.daily, timestamp |-> now]
            ELSE md[a]]

\* fetch_market_data from the k-th asset on
RECURSIVE fetch_market_data(_, _, _, _)
fetch_market_data(md, list, k, now) ==
    IF k > Len(list) THEN md
    ELSE IF MarketReply(k).raises THEN md
    ELSE fetch_market_data(StoreMarket(md, list[k], MarketReply(k), now), list, k + 1, now)

\* the feed of the k-th asset of the list: its entries carry no published
\* field, their summary names the asset; the first feed has six entries, the
\* second repeats the first headline of the first, the others share one
\* headline
Entry(title, list, k) ==
    [title |-> title, description |-> list[k],
     compound |-> IF k % 2 = 1 THEN Frac(6, 10) ELSE Frac(-8, 10)]
FeedReply(list, k) ==
    [raises |-> world.news.kind = "raises" /\ k = world.news.at,
     entries |-> IF k = 1
                 THEN <<Entry("news 1", list, k), Entry("news 2", list, k),
                        Entry("news 3", list, k), Entry("news 4", list, k),
                        Entry("news 5", list, k), Entry("news 6", list, k)>>
                 ELSE IF k = 2
                 THEN <<Entry("news 1", list, k), Entry("more", list, k)>>
                 ELSE <<Entry("more", list, k)>>]

\* self.news_data[title] = {...}: a new title is appended, a title already
\* present keeps its place and gets the new value
PutHeadline(news, h) ==
    IF \E i \in DOMAIN news : news[i].title = h.title
    THEN [i \in DOMAIN news |-> IF news[i].title = h.title THEN h ELSE news[i]]
    ELSE Append(news, h)

\* entries = feed.entries[:5], then one assignment per entry
NewsPerAsset == 5
RECURSIVE StoreNews(_, _, _, _)
StoreNews(news, entries, n, now) ==
    IF n = 0 THEN news
    ELSE PutHeadline(StoreNews(news, entries, n - 1, now),
                     [title |-> entries[n].title,
                      description |-> entries[n].description,
                      compound |-> entries[n].compound,
                      published_at |-> now])

\* the loop of fetch_news_data from the k-th asset on
RECURSIVE FetchNewsFrom(_, _, _, _)
FetchNewsFrom(news, list, k, now) ==
    IF k > Len(list) THEN news
    ELSE IF FeedReply(list, k).raises THEN news
    ELSE FetchNewsFrom(StoreNews(news, FeedReply(list, k).entries,
                                 Min(NewsPerAsset, Len(FeedReply(list, k).entries)), now),
                       list, k + 1, now)

\* fetch_news_data: self.news_data.clear(), then the loop
Cleared_Kept(news) == news
Cleared(news) == <<>>
fetch_news_data(news, list, now) == FetchNewsFrom(Cleared(news), list, 1, now)

(***************************************************************************)
(* app.py: main from start to the dashboard, the two scheduled jobs of     *)
(* start_scheduler, and the read of run_dashboard.  The main thread runs   *)
(* alone until the scheduler is started, so each of its calls is one step; *)
(* a scheduled fetch runs on a scheduler thread, one asset per step.       *)
(***************************************************************************)
jobVars == <<sched, mjob, njob, rounds>>

\* AssetFinder.__init__: if not self.fmp_api_key: raise ValueError
InitRaises_Never(e) == FALSE
InitRaises(e) == ~e.fmp_key

\* alert_manager.FMP_API_KEY = os.getenv("FMP_API_KEY", "demo")
FMP_API_KEY(e) == IF e.fmp_key THEN "configured" ELSE "demo"

\* send_email goes on to SMTP only with a sender, a password and a non-empty
\* recipient list; an unset EMAIL_RECIPIENTS is the placeholder address
Recipients(e) ==
    CASE e.recipients = "absent" -> <<"your_email@example.com">>
      [] e.recipients = "empty" -> <<>>
      [] OTHER -> <<"someone@example.com">>
EmailReady(e) == e.sender /\ e.password /\ Recipients(e) # <<>>

\* asset_finder = AssetFinder(target_assets=5, max_candidates=10)
MainTarget == 5
MainAssetFinder ==
    /\ pc = "start"
    /\ IF InitRaises(env)
       THEN /\ pc' = "aborted"
            /\ UNCHANGED <<stock_candidates, target_arg, target_assets>>
       ELSE /\ target_arg' = MainTarget
            /\ target_assets' = ClampTarget(MainTarget)
            /\ stock_candidates' = world.candidates
            /\ pc' = "ingestion1"
    /\ UNCHANGED <<detectVars, asset_sentiments, alertVars, aggVars, cursor, fetched,
                   asset_data, selected, ASSETS, provider, assets, mainVars>>

\* ingestion = DataIngestion(assets=candidate_assets)
MainIngestion1 ==
    /\ pc = "ingestion1"
    /\ assets' = stock_candidates
    /\ market_data' = EmptyMap
    /\ news_data' = <<>>
    /\ pc' = "fetch_market1"
    /\ UNCHANGED <<opportunities, asset_sentiments, alertVars, tickers,
                   stock_candidates, target_arg, target_assets, cursor, fetched,
                   asset_data, selected, ASSETS, provider, mainVars>>

\* ingestion.fetch_market_data(), first and second pass
MainFetchMarket ==
    /\ pc \in {"fetch_market1", "fetch_market2"}
    /\ market_data' = fetch_market_data(market_data, assets, 1,
                                        IF pc = "fetch_market1" THEN 0 ELSE 1)
    /\ pc' = IF pc = "fetch_market1" THEN "fetch_news1" ELSE "fetch_news2"
    /\ UNCHANGED <<opportunities, asset_sentiments, alertVars, aggVars, finderVars,
                   mainVars>>

\* ingestion.fetch_news_data(), first and second pass
MainFetchNews ==
    /\ pc \in {"fetch_news1", "fetch_news2"}
    /\ news_data' = fetch_news_data(news_data, assets,
                                    IF pc = "fetch_news1" THEN 0 ELSE 1)
    /\ pc' = IF pc = "fetch_news1" THEN "aggregate1" ELSE "aggregate2"
    /\ UNCHANGED <<detectVars, asset_sentiments, alertVars, tickers, finderVars,
                   mainVars>>

\* analyze_sentiment and aggregate_sentiment_by_asset over the candidates
\* (first pass) or over ASSETS (second pass)
MainAggregate ==
    /\ pc \in {"aggregate1", "aggregate2"}
    /\ tickers' = IF pc = "aggregate1" THEN stock_candidates ELSE ASSETS
    /\ asset_sentiments' = aggregate_sentiment_by_asset(news_data, tickers')
    /\ pc' = IF pc = "aggregate1" THEN "find" ELSE "detect"
    /\ UNCHANGED <<detectVars, alertVars, news_data, finderVars, mainVars>>

\* detector = TradingSignalDetector(market_data=ingestion.get_market_data())
\* and alerts = AlertManager(email_config=EMAIL_CONFIG)
MainAlertManager ==
    /\ pc = "ingestion2"
    /\ email_config' = EmailReady(env)
    /\ send_calls' = [a \in Range(ASSETS) |-> 0]
    /\ delivered' = [a \in Range(ASSETS) |-> 0]
    /\ pc' = "fetch_market2"
    /\ UNCHANGED <<detectVars, asset_sentiments, alert_runs, aggVars, finderVars,
                   mainVars>>

\* opportunities = detector.detect_opportunities()
MainDetect ==
    /\ pc = "detect"
    /\ opportunities' = detect_opportunities(market_data)
    /\ pc' = "process_alerts"
    /\ UNCHANGED <<market_data, asset_sentiments, alertVars, aggVars, finderVars,
                   mainVars>>

\* the alerting assets in the order of the loop of process_alerts:
\* opportunities follows market_data, which the fetch filled in list order
RECURSIVE AlertingSeq(_, _, _, _)
AlertingSeq(list, n, opps, sents) ==
    IF n = 0 THEN <<>>
    ELSE IF list[n] \in Alerting(opps, sents)
         THEN Append(AlertingSeq(list, n - 1, opps, sents), list[n])
         ELSE AlertingSeq(list, n - 1, opps, sents)

\* alerts.process_alerts(opportunities, asset_sentiments).  send_email
\* catches SMTPException only: with k > 0 the connection for the k-th
\* alerting asset fails with another error, which ends process_alerts and
\* main (the handler around main() logs it).
MainProcessAlerts ==
    /\ pc = "process_alerts"
    /\ alert_runs' = alert_runs + 1
    /\ LET q == AlertingSeq(ASSETS, Len(ASSETS), opportunities, asset_sentiments)
       IN  \E k \in 0..(IF email_config THEN Len(q) ELSE 0) :
              LET called == IF k = 0 THEN Range(q) ELSE {q[i] : i \in 1..k}
                  tried == IF k = 0 THEN Range(q) ELSE {q[i] : i \in 1..(k - 1)}
              IN  /\ send_calls' = [a \in DOMAIN send_calls |->
                                      IF a \in called
                                      THEN send_calls[a] + 1 ELSE send_calls[a]]
                  /\ \E smtp_ok \in SUBSET tried :
                       delivered' = [a \in DOMAIN delivered |->
                                        IF email_config /\ a \in smtp_ok
                                        THEN delivered[a] + 1 ELSE delivered[a]]
                  /\ pc' = IF k = 0 THEN "start_scheduler" ELSE "aborted"
    /\ UNCHANGED <<detectVars, asset_sentiments, email_config, aggVars, finderVars,
                   mainVars>>

\* ingestion.start_scheduler(): add the two interval jobs and start; a
\* failure is logged and main goes on
MainStartScheduler ==
    /\ pc = "start_scheduler"
    /\ \E ok \in BOOLEAN : sched' = ok
    /\ pc' = "dashboard"
    /\ UNCHANGED <<detectVars, asset_sentiments, alertVars, aggVars, finderVars,
                   env, world, mjob, njob, rounds, dash>>

\* a job can fire once scheduler.start() has run
CanFire_Always(started) == TRUE
CanFire(started) == started

\* the scheduler runs at most one instance of a job at a time
MaxRounds == 1
MarketJobStart ==
    /\ CanFire(sched)
    /\ mjob = 0
    /\ rounds.market < MaxRounds
    /\ rounds' = [rounds EXCEPT !.market = @ + 1]
    /\ mjob' = IF assets = <<>> THEN 0 ELSE 1
    /\ UNCHANGED <<pc, detectVars, asset_sentiments, alertVars, aggVars, finderVars,
                   env, world, sched, njob, dash>>

\* one turn of the loop of the scheduled fetch_market_data
MarketJobStep ==
    /\ mjob \in 1..Len(assets)
    /\ IF MarketReply(mjob).raises
       THEN /\ mjob' = 0
            /\ UNCHANGED market_data
       ELSE /\ market_data' = StoreMarket(market_data, assets[mjob], MarketReply(mjob),
                                          1 + rounds.market)
            /\ mjob' = IF mjob = Len(assets) THEN 0 ELSE mjob + 1
    /\ UNCHANGED <<pc, opportunities, asset_sentiments, alertVars, aggVars, finderVars,
                   env, world, sched, njob, rounds, dash>>

\* the scheduled fetch_news_data starts: self.news_data.clear()
NewsJobStart ==
    /\ CanFire(sched)
    /\ njob = 0
    /\ rounds.news < MaxRounds
    /\ rounds' = [rounds EXCEPT !.news = @ + 1]
    /\ news_data' = Cleared(news_data)
    /\ njob' = IF assets = <<>> THEN 0 ELSE 1
    /\ UNCHANGED <<pc, detectVars, asset_sentiments, alertVars, tickers, finderVars,
                   env, world, sched, mjob, dash>>

\* one turn of the loop of the scheduled fetch_news_data: one feed
NewsJobStep ==
    /\ njob \in 1..Len(assets)
    /\ IF FeedReply(assets, njob).raises
       THEN /\ njob' = 0
            /\ UNCHANGED news_data
       ELSE /\ news_data' =
                 StoreNews(news_data, FeedReply(assets, njob).entries,
                           Min(NewsPerAsset, Len(FeedReply(assets, njob).entries)),
                           1 + rounds.news)
            /\ njob' = IF njob = Len(assets) THEN 0 ELSE njob + 1
    /\ UNCHANGED <<pc, detectVars, asset_sentiments, alertVars, tickers, finderVars,
                   env, world, sched, mjob, rounds, dash>>

\* run_dashboard reads the maps of the ingestion object; it takes no lock
ReaderMayRun_Locked == mjob = 0 /\ njob = 0
ReaderMayRun == TRUE

DashboardRead ==
    /\ pc = "dashboard"
    /\ ReaderMayRun
    /\ dash' = [read |-> TRUE, market |-> market_data, news |-> news_data]
    /\ pc' = "done"
    /\ UNCHANGED <<detectVars, asset_sentiments, alertVars, aggVars, finderVars,
                   env, world, jobVars>>

(***************************************************************************)
(* Inputs of main: the environment holds or lacks each configuration       *)
(* value; the losers API returns 2 or 6 symbols or fails; the finder's     *)
(* provider answers every candidate, none, or every second one; one asset  *)
(* of a fetch may get empty frames or raise.  Failing fetches and missing  *)
(* configuration values are taken with the provider that answers every     *)
(* second candidate.                                                       *)
(***************************************************************************)
Envs ==
    [fmp_key : BOOLEAN, sender : BOOLEAN, password : BOOLEAN,
     recipients : {"absent", "empty", "set"}]
FullEnv == [fmp_key |-> TRUE, sender |-> TRUE, password |-> TRUE, recipients |-> "set"]

MainCandidates == {Take(ApiLosers, 2), Take(ApiLosers, 6), LosersFallback}
NoFailure == [kind |-> "none", at |-> 0]
MarketFailures == {NoFailure} \cup [kind : {"empty", "raises"}, at : {1, 2}]
NewsFailures == {NoFailure} \cup [kind : {"raises"}, at : {1, 2}]
Worlds ==
    [candidates : MainCandidates, market : {NoFailure}, news : {NoFailure}]
    \cup [candidates : {Take(ApiLosers, 6)}, market : MarketFailures, news : NewsFailures]
MainProviders(cands) ==
    {[t \in Range(cands) |-> Reply(fp, <<Frac(3, 10), Frac(1, 10), Frac(2, 10)>>,
                                   <<PE(R(10)), PE(R(5))>>, Position(cands, t))] :
        fp \in {[kind |-> "none", every |-> 1], [kind |-> "raises", every |-> 1],
                [kind |-> "empty", every |-> 2]}}

InitMain ==
    /\ pc = "start"
    /\ env \in Envs
    /\ world \in Worlds
    /\ (env # FullEnv) => (world.candidates = Take(ApiLosers, 2) /\ world.market = NoFailure)
    /\ provider \in MainProviders(world.candidates)
    /\ (world.market # NoFailure \/ world.news # NoFailure \/ env # FullEnv
        \/ world.candidates = LosersFallback)
          => provider[world.candidates[1]].raises = FALSE
             /\ provider[world.candidates[2]].history_empty
    /\ (world.candidates = Take(ApiLosers, 6) /\ world.market = NoFailure
        /\ world.news = NoFailure)
          => provider[world.candidates[2]].raises = FALSE
             /\ provider[world.candidates[2]].history_empty = FALSE
    /\ stock_candidates = <<>>
    /\ target_arg = 0
    /\ target_assets = 0
    /\ cursor = 1
    /\ fetched = EmptyMap
    /\ asset_data = <<>>
    /\ selected = <<>>
    /\ ASSETS = <<>>
    /\ assets = <<>>
    /\ DetectIdle /\ AlertIdle /\ AggIdle
    /\ sched = FALSE
    /\ mjob = 0
    /\ njob = 0
    /\ rounds = [market |-> 0, news |-> 0]
    /\ dash = NotRead

NextMain ==
    \/ MainAssetFinder \/ MainIngestion1 \/ MainFetchMarket \/ MainFetchNews
    \/ MainAggregate \/ FetchAndScore \/ SortAndReturn \/ MainChoose \/ MainReinit
    \/ MainAlertManager \/ MainDetect \/ MainProcessAlerts \/ MainStartScheduler
    \/ MarketJobStart \/ MarketJobStep \/ NewsJobStart \/ NewsJobStep
    \/ DashboardRead

SpecMain == InitMain /\ [][NextMain]_vars

(***************************************************************************)
(* Claims about the finder and main, checked under SpecFinder.             *)
(***************************************************************************)
Returned == pc \in {"returned", "chosen", "ingestion2"}
\* the provider's answer for the ticker yields market data
Usable(t) ==
    /\ ~provider[t].raises
    /\ ~provider[t].history_empty
    /\ provider[t].market_cap # 0
UsableCandidates == {t \in Range(stock_candidates) : Usable(t)}
ScoredTickers == {asset_data[i].ticker : i \in DOMAIN asset_data}
ScoreOf(t) == asset_data[CHOOSE i \in DOMAIN asset_data : asset_data[i].ticker = t].score
\* t ranks before u: a higher score, or the same score and an earlier
\* place in stock_candidates
RanksBefore(t, u) ==
    \/ ScoreOf(t).n * ScoreOf(u).d > ScoreOf(u).n * ScoreOf(t).d
    \/ /\ ScoreOf(t).n * ScoreOf(u).d = ScoreOf(u).n * ScoreOf(t).d
       /\ Position(stock_candidates, t) < Position(stock_candidates, u)

\* C7: the result lists the scored candidates by descending score, equal
\* scores in candidate order, cut to target_assets entries, target_assets
\* being the constructor argument clamped to [5, 10]; it has
\* min(target_assets, number of scored candidates) tickers.
C7_RankedAndCut ==
    /\ target_assets = (IF target_arg < 5 THEN 5 ELSE IF target_arg > 10 THEN 10
                        ELSE target_arg)
    /\ Returned =>
        /\ Len(selected) = Min(target_assets, Cardinality(UsableCandidates))
        /\ Range(selected) \subseteq UsableCandidates
        /\ \A i, j \in DOMAIN selected :
              i < j => RanksBefore(selected[i], selected[j])
        /\ \A t \in Range(selected) :
              \A u \in UsableCandidates \ Range(selected) : RanksBefore(t, u)

\* eleven scored candidates for a target argument of 12: ten are returned,
\* two of equal score among them, and the sort has moved a later candidate
\* in front of an earlier one
C7_Witness ==
    /\ Returned
    /\ target_arg = 12
    /\ Len(asset_data) = 11
    /\ Len(selected) = 10
    /\ \E i, j \in DOMAIN selected :
          i < j /\ ScoreOf(selected[i]) = ScoreOf(selected[j])
    /\ \E i, j \in DOMAIN selected :
          i < j /\ Position(stock_candidates, selected[i])
                     > Position(stock_candidates, selected[j])

\* 1 / pe of a finite, non-zero forward P/E; 0 for float("inf")
InversePE(pe) == IF pe.inf THEN R(0) ELSE RDiv(R(1), pe.v)
HasInverse(pe) == pe.inf \/ pe.v.n # 0
\* the sentiment magnitude the score uses: |avg_compound| of the ticker's
\* sentiment entry with news, 0.1 without
Magnitude(t) ==
    LET info == SentimentInfo(asset_sentiments, t)
    IN  IF info.count > 0
        THEN Frac(Abs(info.avg_compound.n), info.avg_compound.d)
        ELSE Frac(1, 10)
SameValue(x, y) == x.n * y.d = y.n * x.d
Less(x, y) == x.n * y.d < y.n * x.d

C9_UnusableExcluded ==
    /\ \A k \in 1..Min(cursor - 1, Len(stock_candidates)) :
          LET t == stock_candidates[k]
          IN  /\ t \in DOMAIN fetched
              /\ Usable(t) <=> t \in ScoredTickers
    /\ Returned =>
          /\ DOMAIN fetched = Range(stock_candidates)
          /\ ScoredTickers = UsableCandidates
          /\ Range(selected) \subseteq UsableCandidates

\* the second candidate has a market cap of 0 and the third is returned
C9_Witness ==
    /\ Returned
    /\ Len(stock_candidates) >= 3
    /\ provider[stock_candidates[2]].market_cap = 0
    /\ ~provider[stock_candidates[2]].raises
    /\ ~provider[stock_candidates[2]].history_empty
    /\ stock_candidates[2] \notin Range(selected)
    /\ stock_candidates[3] \in Range(selected)

\* C10: when find_interesting_assets returns an empty list, main goes on
\* with the first 5 symbols of its 10-symbol fallback list; otherwise with
\* the list returned.
C10_Fallback ==
    LET expected == IF selected = <<>>
                    THEN <<"DZSI", "BBWI", "ETSY", "SENS", "NGVC">>
                    ELSE selected
    IN  /\ pc \in {"chosen", "ingestion2"} => ASSETS = expected
        /\ pc = "ingestion2" => assets = expected

C10_Witness ==
    /\ pc = "ingestion2"
    /\ selected = <<>>
    /\ Len(stock_candidates) = 3
    /\ assets = <<"DZSI", "BBWI", "ETSY", "SENS", "NGVC">>

Qualifies(a) ==
    /\ a \in DOMAIN opportunities
    /\ \/ opportunities[a] = OVERSOLD /\ 2 * AvgOf(a).n > AvgOf(a).d
       \/ opportunities[a] = OVERBOUGHT /\ 2 * AvgOf(a).n < -AvgOf(a).d

AnyAbsent(e) == ~e.fmp_key \/ ~e.sender \/ ~e.password \/ e.recipients = "absent"
NoDelivery == \A a \in DOMAIN delivered : delivered[a] = 0
NothingRan ==
    /\ stock_candidates = <<>> /\ assets = <<>> /\ ASSETS = <<>>
    /\ market_data = EmptyMap /\ news_data = <<>> /\ opportunities = EmptyMap
    /\ alert_runs = 0 /\ sched = FALSE /\ dash.read = FALSE

C12_FailedFetchBlocksNoOther ==
    /\ pc \in {"fetch_news1", "fetch_news2"} =>
          \A k \in DOMAIN assets :
              (~MarketReply(k).raises /\ ~MarketReply(k).empty) =>
                  /\ assets[k] \in DOMAIN market_data
                  /\ market_data[assets[k]].timestamp = (IF pc = "fetch_news1" THEN 0 ELSE 1)
    /\ pc \in {"aggregate1", "aggregate2"} =>
          \A k \in DOMAIN assets :
              ~FeedReply(assets, k).raises =>
                  \A i \in 1..Min(NewsPerAsset, Len(FeedReply(assets, k).entries)) :
                      \E j \in DOMAIN news_data :
                          news_data[j].title = FeedReply(assets, k).entries[i].title

\* the place of a position of main in the order of its statements
StageRank(p) ==
    CASE p = "start" -> 0
      [] p = "ingestion1" -> 1
      [] p = "fetch_market1" -> 2
      [] p = "fetch_news1" -> 3
      [] p = "aggregate1" -> 4
      [] p = "find" -> 5
      [] p = "returned" -> 6
      [] p = "chosen" -> 7
      [] p = "ingestion2" -> 8
      [] p = "fetch_market2" -> 9
      [] p = "fetch_news2" -> 10
      [] p = "aggregate2" -> 11
      [] p = "detect" -> 12
      [] p = "process_alerts" -> 13
      [] p = "start_scheduler" -> 14
      [] p = "dashboard" -> 15
      [] p = "done" -> 16
      [] p = "aborted" -> 17
JobRunning == mjob # 0 \/ njob # 0
JobHasRun == rounds.market > 0 \/ rounds.news > 0

\* C14: main goes through its stages one after another in the order finder,
\* fetch, sentiment, ranking, second fetch, sentiment, detection, alerting;
\* the scheduler is started only after process_alerts has returned, and no
\* scheduled fetch starts, runs or writes a map before that.
C14_StagesInOrder ==
    [][/\ (pc' # pc /\ pc' # "aborted") => StageRank(pc') = StageRank(pc) + 1
       /\ (sched' \/ JobRunning' \/ JobHasRun') =>
             (pc' \in {"dashboard", "done"} /\ alert_runs' = 1)
       /\ (mjob' # mjob \/ njob' # njob \/ rounds' # rounds) =>
             StageRank(pc) >= StageRank("dashboard")]_vars

\* a scheduled fetch of market data is under way; process_alerts has
\* returned and main is at the dashboard
C14_Witness ==
    /\ sched
    /\ mjob > 1
    /\ pc = "dashboard"
    /\ alert_runs = 1

\* C15: once the scheduler is started a scheduled fetch runs on its own
\* thread and writes the maps the dashboard reads; nothing makes the reader
\* wait for a fetch under way, so whenever main is at the dashboard the read
\* can happen, also in the middle of a fetch, and what it reads is the maps
\* as the fetch has left them so far.
C15_ReadDuringWrite ==
    /\ (pc = "dashboard") => ENABLED DashboardRead
    /\ JobRunning => (sched /\ pc \in {"dashboard", "done"})
    /\ (dash.read /\ ~JobHasRun) => (dash.market = market_data /\ dash.news = news_data)

\* no fetch fails; the dashboard read market_data with one asset refreshed by
\* the scheduled fetch and another not yet, and news_data cleared and
\* refilled with the headlines of only some of the assets
C15_Witness ==
    /\ world.market = NoFailure /\ world.news = NoFailure
    /\ dash.read
    /\ \E a, b \in DOMAIN dash.market :
          dash.market[a].timestamp = 2 /\ dash.market[b].timestamp = 1
    /\ dash.news # <<>>
    /\ \A i \in DOMAIN dash.news : dash.news[i].published_at = 2
    /\ \E k \in DOMAIN assets :
          \A i \in DOMAIN dash.news : dash.news[i].description # assets[k]

\* the time of the latest call of fetch_news_data on the current
\* DataIngestion
LatestNewsCall ==
    IF rounds.news > 0 THEN 1 + rounds.news
    ELSE IF StageRank(pc) > StageRank("fetch_news2") THEN 1 ELSE 0
\* the feeds a call reads: those before the first that raises
ReadFeeds == {k \in DOMAIN assets : \A j \in 1..k : ~FeedReply(assets, j).raises}
\* is t among the first five headlines of the k-th asset's feed?
Carries(k, t) ==
    \E i \in DOMAIN FeedReply(assets, k).entries :
        i <= 5 /\ FeedReply(assets, k).entries[i].title = t
MaxOf(S) == CHOOSE x \in S : \A y \in S : y <= x

\* C16: fetch_news_data empties news_data before it reads a feed: every
\* headline in news_data was written by the latest call, never by an earlier
\* one, at most 5 per asset; a title is held once, and after the call a
\* title carried by the feeds of several assets holds the entry written for
\* the last of them in the list.
C16_ClearedAndOverwritten ==
    /\ \A i \in DOMAIN news_data : news_data[i].published_at = LatestNewsCall
    /\ \A i, j \in DOMAIN news_data : i # j => news_data[i].title # news_data[j].title
    /\ \A k \in DOMAIN assets :
          Cardinality({i \in DOMAIN news_data : news_data[i].description = assets[k]}) <= 5
    /\ (njob = 0) =>
          \A i \in DOMAIN news_data :
              LET from == {k \in ReadFeeds : Carries(k, news_data[i].title)}
              IN  from # {} /\ news_data[i].description = assets[MaxOf(from)]

\* a scheduled call has completed over at least two assets: every headline
\* is of that call, the sixth headline of the first feed is not held, and the
\* headline both feeds carry is the one written for the second asset
C16_Witness ==
    /\ rounds.news = 1 /\ njob = 0
    /\ world.news = NoFailure
    /\ Len(assets) >= 2
    /\ \A i \in DOMAIN news_data :
          news_data[i].published_at = 2 /\ news_data[i].title # "news 6"
    /\ \E i \in DOMAIN news_data :
          news_data[i].title = "news 1" /\ news_data[i].description = assets[2]
    /\ Cardinality({i \in DOMAIN news_data : news_data[i].description = assets[1]}) = 4

Dropped == Range(stock_candidates) \ Range(ASSETS)

\* C17: the per-asset maps are keyed by the current asset list: the keys of
\* market_data (also as the dashboard read it) and of opportunities are assets
\* of the current DataIngestion, the aggregated sentiments have exactly the
\* assets of the list they were computed for, and once the second pass has
\* aggregated no map has an entry for a candidate that was not selected.
C17_KeyedByCurrentAssets ==
    /\ DOMAIN market_data \subseteq Range(assets)
    /\ DOMAIN opportunities \subseteq Range(assets)
    /\ DOMAIN asset_sentiments = Range(tickers)
    /\ dash.read => DOMAIN dash.market \subseteq Range(assets)
    /\ (StageRank(pc) > StageRank("aggregate2") /\ pc # "aborted") =>
          /\ tickers = ASSETS /\ assets = ASSETS
          /\ \A a \in Dropped :
                /\ a \notin DOMAIN market_data
                /\ a \notin DOMAIN opportunities
                /\ a \notin DOMAIN asset_sentiments
                /\ a \notin DOMAIN send_calls

\* six candidates, five selected: after the startup pipeline and a scheduled
\* fetch the maps hold the five and not the dropped candidate
C17_Witness ==
    /\ pc = "done"
    /\ Len(stock_candidates) = 6
    /\ Dropped # {}
    /\ rounds.market = 1 /\ mjob = 0
    /\ DOMAIN market_data = Range(ASSETS)
    /\ DOMAIN opportunities = Range(ASSETS)
    /\ \E a \in Dropped : a \in DOMAIN fetched

(***************************************************************************)
(* Claims about the detector, checked under SpecDetect.                    *)
(***************************************************************************)
StrictlyIncreasing(h) == \A i \in 2..Len(h) : h[i] > h[i - 1]
ConstantSeries(h) == \A i \in 2..Len(h) : h[i] = h[i - 1]
Detected == pc = "detected"
LongHistory(a) ==
    market_data[a].has_daily /\ Len(market_data[a].daily_history) >= 14
LastRsi(a) ==
    calculate_rsi(market_data[a].daily_history, Len(market_data[a].daily_history), 14)

\* C2 (as claimed): a strictly increasing daily-close sequence of 20 points is
\* classified "Momentum (Overbought)".
C2_IncreasingIsOverbought ==
    Detected =>
        \A a \in DOMAIN market_data :
            (/\ market_data[a].has_daily
             /\ Len(market_data[a].daily_history) = 20
             /\ StrictlyIncreasing(market_data[a].daily_history))
            => opportunities[a] = OVERBOUGHT

\* C3: an asset with fewer than 14 daily closes, or with no daily history at
\* all, is labelled "No signal (insufficient history)", whatever the prices.
C3_ShortHistory ==
    Detected =>
        /\ DOMAIN opportunities = DOMAIN market_data
        /\ \A a \in DOMAIN market_data :
              (~market_data[a].has_daily \/ Len(market_data[a].daily_history) < 14)
              => opportunities[a] = NO_HISTORY

C3_Witness ==
    /\ Detected
    /\ \E a \in DOMAIN market_data :
          /\ market_data[a].has_daily
          /\ Len(market_data[a].daily_history) = 13
          /\ ~ConstantSeries(market_data[a].daily_history)
          /\ opportunities[a] = NO_HISTORY
    /\ \E a \in DOMAIN market_data :
          ~market_data[a].has_daily /\ opportunities[a] = NO_HISTORY

\* C4: for a constant daily-close sequence of at least 14 points the average
\* loss is 0 at every point, the RSI is undefined at every point, and the
\* label is "No signal (insufficient data)".
C4_ConstantSeries ==
    Detected =>
        \A a \in DOMAIN market_data :
            (LongHistory(a) /\ ConstantSeries(market_data[a].daily_history))
            => LET h == market_data[a].daily_history
               IN  /\ \A i \in 1..Len(h) : REq(AvgLoss(h, i, 14), R(0))
                   /\ \A i \in 1..Len(h) : IsNaN(calculate_rsi(h, i, 14))
                   /\ opportunities[a] = NO_DATA

C4_Witness ==
    /\ Detected
    /\ \E a \in DOMAIN market_data :
          /\ LongHistory(a)
          /\ Len(market_data[a].daily_history) > 14
          /\ ConstantSeries(market_data[a].daily_history)
          /\ opportunities[a] = NO_DATA

\* C5: with at least 14 daily closes the label follows the last RSI value
\* only: above 70 overbought, below 30 oversold, between them "No signal",
\* undefined "No signal (insufficient data)"; and every label of the result
\* is one of the five signal labels.
C5_LabelFromLastRsi ==
    Detected =>
        /\ \A a \in DOMAIN opportunities : opportunities[a] \in Signals
        /\ \A a \in DOMAIN market_data :
              LongHistory(a) =>
                LET rsi == LastRsi(a)
                    lab == opportunities[a]
                IN  /\ (lab = OVERBOUGHT) <=> (~IsNaN(rsi) /\ rsi.n > 70 * rsi.d)
                    /\ (lab = OVERSOLD) <=> (~IsNaN(rsi) /\ rsi.n < 30 * rsi.d)
                    /\ (lab = NO_SIGNAL) <=>
                         (~IsNaN(rsi) /\ rsi.n >= 30 * rsi.d /\ rsi.n <= 70 * rsi.d)
                    /\ (lab = NO_DATA) <=> IsNaN(rsi)

\* the last RSI is exactly 70 and the label is "No signal"
C5_Witness ==
    /\ Detected
    /\ market_data["AAA"].has_daily
    /\ Len(market_data["AAA"].daily_history) >= 14
    /\ LastRsi("AAA").n = 70 * LastRsi("AAA").d
    /\ ~IsNaN(LastRsi("AAA"))
    /\ opportunities["AAA"] = NO_SIGNAL

\* the sum of the price increases (up = TRUE) or decreases (up = FALSE) over
\* the last k price changes of h
RECURSIVE ChangeSum(_, _, _)
ChangeSum(h, k, up) ==
    IF k = 0 THEN 0
    ELSE LET i == Len(h) - k + 1
             d == h[i] - h[i - 1]
         IN  (IF up /\ d > 0 THEN d ELSE IF ~up /\ d < 0 THEN -d ELSE 0)
             + ChangeSum(h, k - 1, up)

\* C18: with n >= 14 daily closes, G and L being the sums of the increases
\* and of the decreases over the last min(14, n - 1) price changes, the label
\* is "No signal (insufficient data)" when L = 0, and otherwise overbought
\* iff 3G > 7L, oversold iff 7G < 3L and "No signal" in between; a sequence
\* whose last changes are all decreases is oversold.
C18_LabelFromSums ==
    Detected =>
        \A a \in DOMAIN market_data :
            LongHistory(a) =>
                LET h == market_data[a].daily_history
                    k == IF Len(h) - 1 < 14 THEN Len(h) - 1 ELSE 14
                    G == ChangeSum(h, k, TRUE)
                    L == ChangeSum(h, k, FALSE)
                    lab == opportunities[a]
                IN  /\ (L = 0) => lab = NO_DATA
                    /\ (L > 0) =>
                          /\ (lab = OVERBOUGHT) <=> (3 * G > 7 * L)
                          /\ (lab = OVERSOLD) <=> (7 * G < 3 * L)
                          /\ (lab = NO_SIGNAL) <=> (3 * G <= 7 * L /\ 7 * G >= 3 * L)
                    /\ (L > 0 /\ G = 0) => lab = OVERSOLD

\* 20 closes: an older rise lies outside the last 14 changes, which are all
\* decreases
C18_Witness ==
    /\ Detected
    /\ LongHistory("AAA")
    /\ LET h == market_data["AAA"].daily_history
       IN  /\ Len(h) = 20
           /\ h[4] > h[1]
           /\ ChangeSum(h, 14, TRUE) = 0
           /\ ChangeSum(h, 14, FALSE) > 0
    /\ opportunities["AAA"] = OVERSOLD

====
